---- MODULE Spec2Model ----
(***************************************************************************)
(* A model of lib/src/logging.rs: the severity model, the directive        *)
(* parser (parse_logging_spec), the directive matcher (Logger::enabled,    *)
(* Logger::compat_enabled) and the thread-local Logger with its two        *)
(* emission paths (the log! macro and the CompatLogger front-end).         *)
(*                                                                         *)
(* Strings the code inspects character by character (the spec string, the  *)
(* directive names, the event targets) are sequences of one-character      *)
(* strings.  Strings the code only stores and copies (tags, backend        *)
(* handles) are opaque values.                                             *)
(***************************************************************************)
EXTENDS Integers, Sequences, FiniteSets, TLC

VARIABLES
  \* the thread-local Logger machine
  LOGGER,      \* LOGGER[t]: the thread's RefCell<Logger> contents
  TAG,         \* TAG[t]: the thread's lazily initialised TAG string
  status,      \* status[t]: "running" or "panicked"
  compat,      \* the log crate's global state: installed logger, max level
  lastInit,    \* history: arguments of the latest Logger::init of each thread
  last,        \* history: what the latest emission did (none since an init)
  \* parse_logging_spec applied to one input
  p_spec, p_dirs, p_done,
  \* Logger::enabled / Logger::compat_enabled applied to one input
  m_dirs, m_level, m_target, m_done, m_result, m_compat

loggerVars == <<LOGGER, TAG, status, compat, lastInit, last>>
parseVars  == <<p_spec, p_dirs, p_done>>
matchVars  == <<m_dirs, m_level, m_target, m_done, m_result, m_compat>>
vars       == <<LOGGER, TAG, status, compat, lastInit, last,
                p_spec, p_dirs, p_done,
                m_dirs, m_level, m_target, m_done, m_result, m_compat>>

----------------------------------------------------------------------------
(* Bounds of the model *)

\* longest token sequence a spec string of SpecParse is built from
MaxTokens == 5
\* longest directive list of SpecMatch
MaxDirs == 3

----------------------------------------------------------------------------
(* Option<String> *)

None == [some |-> FALSE, val |-> <<>>]
Some(s) == [some |-> TRUE, val |-> s]

----------------------------------------------------------------------------
(* Severity model: LogLevel (1..5) and LogLevelFilter (0..5), #[repr(usize)] *)

Off   == 0
Error == 1
Warn  == 2
Info  == 3
Debug == 4
Trace == 5

LogLevels == Error..Trace
LogLevelFilters == Off..Trace

\* static LOG_LEVEL_NAMES
LOG_LEVEL_NAMES ==
  << <<"O","F","F">>, <<"E","R","R","O","R">>, <<"W","A","R","N">>,
     <<"I","N","F","O">>, <<"D","E","B","U","G">>, <<"T","R","A","C","E">> >>

\* LogLevelFilter::max()
LogLevelFilter_max == Trace

\* impl PartialOrd<LogLevelFilter> for LogLevel: comparison of the usize ranks
LevelLeFilter(level, filter) == level <= filter

UpperChars == <<"A","B","C","D","E","F","G","H","I","J","K","L","M",
                "N","O","P","Q","R","S","T","U","V","W","X","Y","Z">>
LowerChars == <<"a","b","c","d","e","f","g","h","i","j","k","l","m",
                "n","o","p","q","r","s","t","u","v","w","x","y","z">>

\* u8::to_ascii_lowercase, as used by eq_ignore_ascii_case
to_ascii_lowercase(c) ==
  IF \E i \in 1..26 : UpperChars[i] = c
  THEN LowerChars[CHOOSE i \in 1..26 : UpperChars[i] = c]
  ELSE c

eq_ignore_ascii_case(a, b) ==
  /\ Len(a) = Len(b)
  /\ \A i \in 1..Len(a) : to_ascii_lowercase(a[i]) = to_ascii_lowercase(b[i])

\* LogLevelFilter::from_usize
LogLevelFilter_from_usize(u) == IF u \in 0..5 THEN [ok |-> TRUE, v |-> u]
                                ELSE [ok |-> FALSE, v |-> 0]

\* impl FromStr for LogLevelFilter: the position of the first name of
\* LOG_LEVEL_NAMES equal to the token ignoring ASCII case; Err(()) if none.
LogLevelFilter_from_str(level) ==
  LET hits == {p \in 1..Len(LOG_LEVEL_NAMES) :
                 eq_ignore_ascii_case(LOG_LEVEL_NAMES[p], level)}
  IN IF hits = {} THEN [ok |-> FALSE, v |-> 0]
     ELSE LogLevelFilter_from_usize((CHOOSE p \in hits : \A q \in hits : p <= q) - 1)

----------------------------------------------------------------------------
(* str helpers *)

\* a matcher that compares whole names instead of prefixes
starts_with_exact(s, prefix) == s = prefix

\* str::starts_with
starts_with(s, prefix) ==
  /\ Len(prefix) <= Len(s)
  /\ \A i \in 1..Len(prefix) : s[i] = prefix[i]

\* index of the first occurrence of sep in s at or after i, 0 if none
RECURSIVE FindFrom(_, _, _)
FindFrom(s, sep, i) ==
  IF i > Len(s) THEN 0
  ELSE IF s[i] = sep THEN i
  ELSE FindFrom(s, sep, i + 1)

\* str::split(char): the pieces between separators, always at least one piece
RECURSIVE split(_, _)
split(s, sep) ==
  LET k == FindFrom(s, sep, 1)
  IN IF k = 0 THEN <<s>>
     ELSE <<SubSeq(s, 1, k - 1)>> \o split(SubSeq(s, k + 1, Len(s)), sep)

WhiteSpace == {" ", "\t"}

\* str::trim: leading and trailing whitespace removed
RECURSIVE trim(_)
trim(s) ==
  IF s = <<>> THEN s
  ELSE IF Head(s) \in WhiteSpace THEN trim(Tail(s))
  ELSE IF s[Len(s)] \in WhiteSpace THEN trim(SubSeq(s, 1, Len(s) - 1))
  ELSE s

----------------------------------------------------------------------------
(* LogDirective and parse_logging_spec *)

LogDirective(name, level) == [name |-> name, level |-> level]

\* One iteration of the loop over m.split(','): the directives it pushes
\* (one or none).
ParseClause(s) ==
  IF Len(s) = 0 THEN <<>>
  ELSE
    LET parts == split(s, "=")
        part0 == parts[1]
    IN IF Len(parts) = 1 THEN
         LET r == LogLevelFilter_from_str(part0)
         IN IF r.ok THEN <<LogDirective(None, r.v)>>
            ELSE <<LogDirective(Some(part0), LogLevelFilter_max)>>
       ELSE IF Len(parts) = 2 THEN
         LET part1 == trim(parts[2])
         IN IF part1 = <<>> THEN <<LogDirective(Some(part0), LogLevelFilter_max)>>
            ELSE LET r == LogLevelFilter_from_str(part1)
                 IN IF r.ok THEN <<LogDirective(Some(part0), r.v)>>
                    ELSE <<>>
       ELSE <<>>

\* a parser that gives up at the first clause that contributes no directive
RECURSIVE ParseClauses_abort(_)
ParseClauses_abort(clauses) ==
  IF clauses = <<>> THEN <<>>
  ELSE IF ParseClause(Head(clauses)) = <<>> THEN <<>>
  ELSE ParseClause(Head(clauses)) \o ParseClauses_abort(Tail(clauses))

RECURSIVE ParseClauses(_)
ParseClauses(clauses) ==
  IF clauses = <<>> THEN <<>>
  ELSE ParseClause(Head(clauses)) \o ParseClauses(Tail(clauses))

\* a parser without the check for a third segment
parse_logging_spec_unchecked(spec) ==
  ParseClauses(split(split(spec, "/")[1], ","))

parse_logging_spec(spec) ==
  LET parts == split(spec, "/")
  IN IF Len(parts) >= 3 THEN <<>>
     ELSE ParseClauses(split(parts[1], ","))

----------------------------------------------------------------------------
(* Logger::enabled and Logger::compat_enabled *)

\* The backward scan over directives[1..i]
RECURSIVE ScanBack(_, _, _, _)
ScanBack(directives, i, level, target) ==
  IF i = 0 THEN FALSE
  ELSE LET directive == directives[i]
       IN IF directive.name.some /\ ~starts_with(target, directive.name.val)
          THEN ScanBack(directives, i - 1, level, target)
          ELSE LevelLeFilter(level, directive.level)

\* a matcher that scans from the first directive (iter() without rev())
RECURSIVE ScanForward(_, _, _, _)
ScanForward(directives, i, level, target) ==
  IF i > Len(directives) THEN FALSE
  ELSE LET directive == directives[i]
       IN IF directive.name.some /\ ~starts_with(target, directive.name.val)
          THEN ScanForward(directives, i + 1, level, target)
          ELSE LevelLeFilter(level, directive.level)

enabled_forward(directives, level, target) ==
  ScanForward(directives, 1, level, target)

enabled(directives, level, target) ==
  ScanBack(directives, Len(directives), level, target)

\* log::LogLevel, the front-end crate's severity
CompatLevels == {"log::Error", "log::Warn", "log::Info", "log::Debug", "log::Trace"}

\* impl From<log::LogLevel> for LogLevel
FromCompatLevel(lvl) ==
  CASE lvl = "log::Error" -> Error
    [] lvl = "log::Warn"  -> Warn
    [] lvl = "log::Info"  -> Info
    [] lvl = "log::Debug" -> Debug
    [] lvl = "log::Trace" -> Trace

\* The backward scan of compat_enabled over directives[1..i]
RECURSIVE CompatScanBack(_, _, _, _)
CompatScanBack(directives, i, lvl, target) ==
  IF i = 0 THEN FALSE
  ELSE LET directive == directives[i]
       IN IF directive.name.some /\ ~starts_with(target, directive.name.val)
          THEN CompatScanBack(directives, i - 1, lvl, target)
          ELSE LevelLeFilter(FromCompatLevel(lvl), directive.level)

compat_enabled(directives, lvl, target) ==
  CompatScanBack(directives, Len(directives), lvl, target)

----------------------------------------------------------------------------
(* The thread-local Logger, Logger::init and the two emission paths *)

Threads == {"t1", "t2"}
Tags == {"A", "B"}
\* LoggerBackend, by variant
Backends == {"Stdout", "Unix", "Udp", "Tcp"}
InitBackends == {"Unix", "Tcp"}

NetName == <<"n","e","t">>
NetIoName == <<"n","e","t",":",":","i","o">>
DbName == <<"d","b">>
Targets == {NetIoName, DbName}

\* "error,net=debug" and "trace/x/y"
InitSpecs ==
  { <<"e","r","r","o","r",",","n","e","t","=","d","e","b","u","g">>,
    <<"t","r","a","c","e","/","x","/","y">> }

\* the severities of the events emitted
EventLevels == {Error, Info, Debug}
EventCompatLevels == {"log::Error", "log::Info", "log::Debug"}

\* libc::getpid()
ProcessPid == 7

\* Logger::new
Logger_new ==
  [ directives |-> <<LogDirective(None, Error)>>,
    backend    |-> "Stdout",
    tag        |-> "SOZU",
    pid        |-> 0 ]

\* the log crate before any set_logger: no logger, max_log_level() = Off
CompatUnset == [installed |-> FALSE, max_log_level |-> Off]

\* log::set_logger(|max_log_level| { max_log_level.set(Info); Box::new(CompatLogger) }):
\* the first call installs the logger and sets the maximum level; a later call
\* returns Err, which init drops with `let _ =`
set_logger(c) ==
  IF c.installed THEN c
  ELSE [installed |-> TRUE, max_log_level |-> Info]

\* The front-end's own filter, applied by the log crate's macros before
\* CompatLogger::log is called: a logger is installed and the record's level
\* is within max_log_level()
FrontEndPasses(c, lvl) ==
  c.installed /\ FromCompatLevel(lvl) <= c.max_log_level

\* A message argument whose formatting emits a log event of its own:
\* none, or the path and level of the event it emits
NoNested == [kind |-> "none", lvl |-> "log::Error"]
NestedEvents ==
  { NoNested, [kind |-> "macro", lvl |-> "log::Info"],
    [kind |-> "compat", lvl |-> "log::Info"], [kind |-> "compat", lvl |-> "log::Debug"] }

\* The nested event reaches `l.borrow()` (log! line 405, CompatLogger::log
\* line 510) while the outer emission holds `l.borrow_mut()`: RefCell panics.
\* A nested log! always gets there; a nested front-end event only when the
\* front-end lets it through.
NestedBorrowPanics(c, nested) ==
  \/ nested.kind = "macro"
  \/ nested.kind = "compat" /\ FrontEndPasses(c, nested.lvl)

\* The match on self.backend of Logger::log / Logger::compat_log: one write
\* call on the backend, its Result dropped.  Unix and Udp format the line
\* first and send it; Stdout and Tcp format inside write_fmt.
BackendWrite(self, nestedPanics, ok) ==
  LET call == [logger |-> self,
               outcome |-> IF ok THEN "written" ELSE "failed",
               writes |-> 1]
      unwound == [logger |-> self, outcome |-> "panic", writes |-> 0]
  IN CASE self.backend = "Stdout" -> IF nestedPanics THEN unwound ELSE call
       [] self.backend = "Unix"   -> IF nestedPanics THEN unwound ELSE call
       [] self.backend = "Udp"    -> IF nestedPanics THEN unwound ELSE call
       [] self.backend = "Tcp"    -> IF nestedPanics THEN unwound ELSE call

\* Logger::log
Logger_log(self, level, target, nestedPanics, ok) ==
  IF enabled(self.directives, level, target)
  THEN BackendWrite(self, nestedPanics, ok)
  ELSE [logger |-> self, outcome |-> "disabled", writes |-> 0]

\* Logger::compat_log
Logger_compat_log(self, lvl, target, nestedPanics, ok) ==
  IF compat_enabled(self.directives, lvl, target)
  THEN BackendWrite(self, nestedPanics, ok)
  ELSE [logger |-> self, outcome |-> "disabled", writes |-> 0]

\* TAG.with(..): the first access on a thread runs TAG's initialiser, a clone
\* of the thread's logger.tag at that moment; later accesses find it set
TAG_with(tagCell, logger) ==
  IF tagCell.set THEN tagCell ELSE [set |-> TRUE, val |-> logger.tag]

NoInit == [done |-> FALSE, tag |-> "", spec |-> <<>>, backend |-> ""]
NoEvent ==
  [ thread |-> "", path |-> "", level |-> Error, target |-> <<>>,
    outcome |-> "none", writes |-> 0, backend |-> "", tag |-> "" ]

Handed(outcome) == outcome \in {"written", "failed"}

\* the record of one emission
EventRecord(t, path, level, target, r, tagCell) ==
  [ thread  |-> t,
    path    |-> path,
    level   |-> level,
    target  |-> target,
    outcome |-> r.outcome,
    writes  |-> r.writes,
    backend |-> IF Handed(r.outcome) THEN r.logger.backend ELSE "",
    tag     |-> IF Handed(r.outcome) THEN tagCell.val ELSE "" ]

Init ==
  /\ LOGGER = [t \in Threads |-> Logger_new]
  /\ TAG = [t \in Threads |-> [set |-> FALSE, val |-> ""]]
  /\ status = [t \in Threads |-> "running"]
  /\ compat = CompatUnset
  /\ lastInit = [t \in Threads |-> NoInit]
  /\ last = NoEvent
  /\ p_spec = <<>> /\ p_dirs = <<>> /\ p_done = FALSE
  /\ m_dirs = <<>> /\ m_level = Error /\ m_target = <<>>
  /\ m_done = FALSE /\ m_result = FALSE /\ m_compat = FALSE

\* an init that adds the new directives to the old ones
Logger_init_merge(logger, tag, spec, backend) ==
  [ directives |-> logger.directives \o parse_logging_spec(spec),
    backend    |-> backend,
    tag        |-> tag,
    pid        |-> ProcessPid ]

\* The Logger after the LOGGER.with closure of Logger::init
Logger_init(logger, tag, spec, backend) ==
  [ directives |-> parse_logging_spec(spec),
    backend    |-> backend,
    tag        |-> tag,
    pid        |-> ProcessPid ]

\* Logger::init(tag, spec, backend) on thread t
LoggerInit(t, tag, spec, backend) ==
  /\ status[t] = "running"
  /\ LOGGER' = [LOGGER EXCEPT ![t] = Logger_init(LOGGER[t], tag, spec, backend)]
  /\ compat' = set_logger(compat)
  /\ lastInit' = [lastInit EXCEPT ![t] =
                    [done |-> TRUE, tag |-> tag, spec |-> spec, backend |-> backend]]
  /\ last' = NoEvent
  /\ UNCHANGED <<TAG, status, parseVars, matchVars>>

\* The effect of one emission that reached TAG.with / LOGGER.with on thread t
Emitted(t, path, level, target, r) ==
  /\ TAG' = [TAG EXCEPT ![t] = TAG_with(TAG[t], LOGGER[t])]
  /\ LOGGER' = [LOGGER EXCEPT ![t] = r.logger]
  /\ status' = [status EXCEPT ![t] =
                  IF r.outcome = "panic" THEN "panicked" ELSE "running"]
  /\ last' = EventRecord(t, path, level, target, r, TAG_with(TAG[t], LOGGER[t]))

\* log!(level, ...) on thread t (the final __inner__ arm): TAG.with, LOGGER.with,
\* l.borrow().pid, l.borrow_mut().log(&_META, format_args!(..))
EmitMacro(t, level, target, nested, ok) ==
  /\ status[t] = "running"
  /\ Emitted(t, "macro", level, target,
             Logger_log(LOGGER[t], level, target, NestedBorrowPanics(compat, nested), ok))
  /\ UNCHANGED <<compat, lastInit, parseVars, matchVars>>

\* An event of the log crate's macros on thread t: dropped by the front-end,
\* or passed to CompatLogger::log: TAG.with, LOGGER.with, l.borrow().pid,
\* l.borrow_mut().compat_log(record.metadata(), format_args!(..))
EmitCompat(t, lvl, target, nested, ok) ==
  /\ status[t] = "running"
  /\ IF FrontEndPasses(compat, lvl)
     THEN Emitted(t, "compat", FromCompatLevel(lvl), target,
                  Logger_compat_log(LOGGER[t], lvl, target,
                                    NestedBorrowPanics(compat, nested), ok))
     ELSE /\ last' = EventRecord(t, "compat", FromCompatLevel(lvl), target,
                       [logger |-> LOGGER[t], outcome |-> "filtered", writes |-> 0],
                       TAG[t])
          /\ UNCHANGED <<LOGGER, TAG, status>>
  /\ UNCHANGED <<compat, lastInit, parseVars, matchVars>>

Next ==
  \E t \in Threads :
    \/ \E tag \in Tags, spec \in InitSpecs, backend \in InitBackends :
         LoggerInit(t, tag, spec, backend)
    \/ \E level \in EventLevels, target \in Targets, nested \in NestedEvents, ok \in BOOLEAN :
         EmitMacro(t, level, target, nested, ok)
    \/ \E lvl \in EventCompatLevels, target \in Targets, nested \in NestedEvents, ok \in BOOLEAN :
         EmitCompat(t, lvl, target, nested, ok)

Spec == Init /\ [][Next]_vars

----------------------------------------------------------------------------
(* SpecParse: parse_logging_spec applied to every spec string built from   *)
(* at most MaxTokens tokens.                                               *)

Tokens ==
  { <<"i","n","f","o">>, <<"D","E","B","U","G">>, <<"n","e","t">>, <<"3">>,
    <<"=">>, <<",">>, <<"/">>, <<" ">> }

RECURSIVE Flatten(_)
Flatten(ss) == IF ss = <<>> THEN <<>> ELSE Head(ss) \o Flatten(Tail(ss))

SpecStrings ==
  { Flatten(ts) : ts \in UNION { [1..k -> Tokens] : k \in 0..MaxTokens } }

InitParse ==
  /\ p_spec \in SpecStrings
  /\ p_dirs = <<>>
  /\ p_done = FALSE
  /\ LOGGER = <<>> /\ TAG = <<>> /\ status = <<>> /\ compat = <<>>
  /\ lastInit = <<>> /\ last = <<>>
  /\ m_dirs = <<>> /\ m_level = Error /\ m_target = <<>>
  /\ m_done = FALSE /\ m_result = FALSE /\ m_compat = FALSE

\* let directives = parse_logging_spec(spec)
CallParse ==
  /\ ~p_done
  /\ p_dirs' = parse_logging_spec(p_spec)
  /\ p_done' = TRUE
  /\ UNCHANGED <<p_spec, loggerVars, matchVars>>

NextParse == CallParse

SpecParse == InitParse /\ [][NextParse]_vars

----------------------------------------------------------------------------
(* SpecMatch: Logger::enabled and Logger::compat_enabled applied to every  *)
(* directive list of at most MaxDirs directives.                           *)

MatchNames ==
  { None, Some(<<>>), Some(<<"n","e","t">>), Some(<<"n","e","t",":",":","i","o">>) }
MatchFilters == {Off, Info, Debug, Trace}
MatchDirectives == { LogDirective(n, l) : n \in MatchNames, l \in MatchFilters }
MatchLists == UNION { [1..k -> MatchDirectives] : k \in 0..MaxDirs }
MatchTargets ==
  { <<"n","e","t",":",":","i","o">>, <<"n","e","t">>, <<"d","b">> }

\* log::LogLevel of the same rank as a LogLevel
CompatOfRank(level) ==
  CHOOSE c \in CompatLevels : FromCompatLevel(c) = level

InitMatch ==
  /\ m_dirs \in MatchLists
  /\ m_level \in LogLevels
  /\ m_target \in MatchTargets
  /\ m_done = FALSE /\ m_result = FALSE /\ m_compat = FALSE
  /\ LOGGER = <<>> /\ TAG = <<>> /\ status = <<>> /\ compat = <<>>
  /\ lastInit = <<>> /\ last = <<>>
  /\ p_spec = <<>> /\ p_dirs = <<>> /\ p_done = FALSE

\* self.enabled(meta) and self.compat_enabled(meta) on the same Logger, for an
\* event of the same rank and target
CallEnabled ==
  /\ ~m_done
  /\ m_result' = enabled(m_dirs, m_level, m_target)
  /\ m_compat' = compat_enabled(m_dirs, CompatOfRank(m_level), m_target)
  /\ m_done' = TRUE
  /\ UNCHANGED <<m_dirs, m_level, m_target, loggerVars, parseVars>>

NextMatch == CallEnabled

SpecMatch == InitMatch /\ [][NextMatch]_vars

----------------------------------------------------------------------------
(* Reference definitions used by the properties of the matcher *)

IsPrefixOf(p, t) == Len(p) <= Len(t) /\ SubSeq(t, 1, Len(p)) = p

SetMax(S) == CHOOSE x \in S : \A y \in S : y <= x

\* indices of the directives that apply to the target
Applying(dirs, target) ==
  { i \in 1..Len(dirs) : ~dirs[i].name.some \/ IsPrefixOf(dirs[i].name.val, target) }

LastApplyingDecision(dirs, level, target) ==
  LET A == Applying(dirs, target)
  IN IF A = {} THEN FALSE ELSE level <= dirs[SetMax(A)].level

\* C1: Logger::enabled returns (severity <= d.level) for the directive d of
\* highest index whose name is None or a prefix of the target, and false when
\* there is none; so [{net,Debug},{None,Info}] disables (net::io, Debug) and
\* [{None,Info},{net,Debug}] enables it.
C1_LastApplyingDirectiveDecides ==
  m_done =>
    /\ m_result = LastApplyingDecision(m_dirs, m_level, m_target)
    /\ ( /\ m_dirs = <<LogDirective(Some(NetName), Debug), LogDirective(None, Info)>>
         /\ m_target = NetIoName /\ m_level = Debug ) => ~m_result
    /\ ( /\ m_dirs = <<LogDirective(None, Info), LogDirective(Some(NetName), Debug)>>
         /\ m_target = NetIoName /\ m_level = Debug ) => m_result

C1_Witness ==
  /\ m_done
  /\ m_dirs = <<LogDirective(Some(NetName), Debug), LogDirective(None, Info)>>
  /\ m_target = NetIoName /\ m_level = Debug
  /\ ~m_result

\* catch-all directives first, named directives after them in non-decreasing
\* order of name length
WellOrdered(dirs) ==
  \A i, j \in 1..Len(dirs) :
    i < j =>
      /\ ~dirs[j].name.some => ~dirs[i].name.some
      /\ (dirs[i].name.some /\ dirs[j].name.some)
           => Len(dirs[i].name.val) <= Len(dirs[j].name.val)

\* longest-prefix matching: the named directive with the longest name that is
\* a prefix of the target (the later one of two with the same name), else the
\* (latest) catch-all, else disabled
LongestPrefixDecision(dirs, level, target) ==
  LET named == { i \in 1..Len(dirs) :
                   dirs[i].name.some /\ IsPrefixOf(dirs[i].name.val, target) }
      catch == { i \in 1..Len(dirs) : ~dirs[i].name.some }
      longest == { i \in named :
                     \A j \in named : Len(dirs[j].name.val) <= Len(dirs[i].name.val) }
  IN IF named # {} THEN level <= dirs[SetMax(longest)].level
     ELSE IF catch # {} THEN level <= dirs[SetMax(catch)].level
     ELSE FALSE

\* C8: on a list with the catch-all directives first and the named ones in
\* non-decreasing order of name length, Logger::enabled decides as
\* longest-prefix matching does.
C8_WellOrderedIsLongestPrefix ==
  (m_done /\ WellOrdered(m_dirs)) =>
    m_result = LongestPrefixDecision(m_dirs, m_level, m_target)

C8_Witness ==
  /\ m_done
  /\ m_dirs = <<LogDirective(None, Info), LogDirective(Some(NetName), Off),
                LogDirective(Some(NetIoName), Debug)>>
  /\ WellOrdered(m_dirs)
  /\ m_target = NetIoName /\ m_level = Debug
  /\ m_result

----------------------------------------------------------------------------
(* Reference definitions used by the properties of the parser *)

CountOf(s, c) == Cardinality({ i \in 1..Len(s) : s[i] = c })

NumSegments(spec) == CountOf(spec, "/") + 1

\* the k-th (1-based) field of s when s is cut at every occurrence of c
Field(s, c, k) ==
  LET cuts == { i \in 1..Len(s) : s[i] = c }
      bounds == {0} \cup cuts \cup {Len(s) + 1}
      nth(n) == CHOOSE b \in bounds : Cardinality({ x \in bounds : x < b }) = n - 1
  IN SubSeq(s, nth(k) + 1, nth(k + 1) - 1)

ToUpper(x) ==
  [ i \in 1..Len(x) |->
      IF \E j \in 1..26 : LowerChars[j] = x[i]
      THEN UpperChars[CHOOSE j \in 1..26 : LowerChars[j] = x[i]]
      ELSE x[i] ]

\* the ranks whose name is x, ignoring case
RanksNamed(x) == { r \in 0..5 : ToUpper(x) = LOG_LEVEL_NAMES[r + 1] }
RankNamed(x) == CHOOSE r \in RanksNamed(x) : TRUE

\* x without its leading and trailing blanks
Strip(x) ==
  LET solid == { i \in 1..Len(x) : x[i] \notin WhiteSpace }
  IN IF solid = {} THEN <<>>
     ELSE SubSeq(x, CHOOSE i \in solid : \A j \in solid : i <= j, SetMax(solid))

\* what one clause contributes; the right side of '=' is taken as written
\* (stripped = FALSE) or without its surrounding blanks (stripped = TRUE)
ClauseDirectives(c, stripped) ==
  LET n == CountOf(c, "=")
      left == Field(c, "=", 1)
      right == IF stripped THEN Strip(Field(c, "=", 2)) ELSE Field(c, "=", 2)
  IN IF c = <<>> THEN <<>>
     ELSE IF n = 0 THEN
       IF RanksNamed(c) # {} THEN <<LogDirective(None, RankNamed(c))>>
       ELSE <<LogDirective(Some(c), Trace)>>
     ELSE IF n = 1 THEN
       IF right = <<>> THEN <<LogDirective(Some(left), Trace)>>
       ELSE IF RanksNamed(right) # {} THEN <<LogDirective(Some(left), RankNamed(right))>>
       ELSE <<>>
     ELSE <<>>

RECURSIVE ClausesFrom(_, _, _)
ClausesFrom(seg, k, stripped) ==
  IF k > CountOf(seg, ",") + 1 THEN <<>>
  ELSE ClauseDirectives(Field(seg, ",", k), stripped) \o ClausesFrom(seg, k + 1, stripped)

ExpectedDirectives(spec, stripped) == ClausesFrom(Field(spec, "/", 1), 1, stripped)

\* C2 as stated: for a spec of at most two segments the result is, in clause
\* order, one directive per well-formed clause of the first segment, NAME=
\* meaning an empty right side and NAME=LEVEL a right side that is a level name.
C2_ClauseByClause_AsStated ==
  (p_done /\ NumSegments(p_spec) <= 2) => p_dirs = ExpectedDirectives(p_spec, FALSE)

\* C2 as amended: the same, with the right side of '=' stripped of its
\* surrounding whitespace before it is classified.
C2_ClauseByClause_Trimmed ==
  (p_done /\ NumSegments(p_spec) <= 2) => p_dirs = ExpectedDirectives(p_spec, TRUE)

\* two clauses around a rejected one, the last with a blank right side
C2_Witness ==
  /\ p_done
  /\ NumSegments(p_spec) <= 2
  /\ CountOf(p_spec, ",") >= 1
  /\ CountOf(p_spec, " ") >= 1
  /\ Len(p_dirs) >= 1
  /\ p_dirs # ExpectedDirectives(p_spec, FALSE)

DigitChar(r) == <<"0", "1", "2", "3", "4", "5">>[r + 1]

\* C9: a level token parses from its name ignoring case and from its rank
\* 0-5: a bare clause "r" yields {None, rank r} and "NAME=r" yields
\* {NAME, rank r}, as the name of that rank does.
C9_RankParsesAsLevel ==
  p_done =>
    \A r \in 0..5 :
      /\ p_spec = <<DigitChar(r)>> => p_dirs = <<LogDirective(None, r)>>
      /\ p_spec = NetName \o <<"=", DigitChar(r)>>
           => p_dirs = <<LogDirective(Some(NetName), r)>>
      /\ (Len(p_spec) > 0 /\ ToUpper(p_spec) = LOG_LEVEL_NAMES[r + 1])
           => p_dirs = <<LogDirective(None, r)>>

----------------------------------------------------------------------------
(* Properties of the Logger machine (Spec) *)

ThreeSegmentSpec == <<"t","r","a","c","e","/","x","/","y">>
TwoClauseSpec == <<"e","r","r","o","r",",","n","e","t","=","d","e","b","u","g">>

\* the directive lists the two spec strings of InitSpecs stand for
DirectivesOf(spec) ==
  IF spec = TwoClauseSpec
  THEN <<LogDirective(None, Error), LogDirective(Some(NetName), Debug)>>
  ELSE <<>>

\* C3: the directives, backend and tag of a thread's Logger are those of the
\* latest Logger::init run on that thread, whatever happened on other threads
\* and whatever was emitted, and the default configuration (one catch-all
\* Error directive, Stdout) if the thread never ran init.
C3_ConfigIsLatestInitOfThread ==
  \A t \in Threads :
    IF lastInit[t].done
    THEN /\ LOGGER[t].directives = parse_logging_spec(lastInit[t].spec)
         /\ LOGGER[t].directives = DirectivesOf(lastInit[t].spec)
         /\ LOGGER[t].backend = lastInit[t].backend
         /\ LOGGER[t].tag = lastInit[t].tag
    ELSE /\ LOGGER[t].directives = <<LogDirective(None, Error)>>
         /\ LOGGER[t].backend = "Stdout"
         /\ LOGGER[t].tag = "SOZU"

\* t1 was configured, emitted, and was configured again with another tag and
\* the three-segment spec; t2 emitted and never ran init
C3_Witness ==
  /\ lastInit["t1"].done /\ lastInit["t1"].spec = ThreeSegmentSpec
  /\ LOGGER["t1"].directives = <<>>
  /\ TAG["t1"].set /\ TAG["t1"].val \in Tags /\ TAG["t1"].val # LOGGER["t1"].tag
  /\ ~lastInit["t2"].done
  /\ TAG["t2"].set
  /\ LOGGER["t2"] = Logger_new

\* the event of `last` passes the filters of its path on thread t's Logger
EventEnabled(ev) ==
  IF ev.path = "macro"
  THEN enabled(LOGGER[ev.thread].directives, ev.level, ev.target)
  ELSE /\ FrontEndPasses(compat, CompatOfRank(ev.level))
       /\ compat_enabled(LOGGER[ev.thread].directives, CompatOfRank(ev.level), ev.target)

\* C4: when the backend write of an enabled event fails, the emission returns
\* normally, the Logger is left as it was, the write is not retried, and the
\* next enabled event of the thread is handed to the same backend.
C4_WriteFailureIsSwallowed ==
  [][ /\ ( (last' # last /\ last'.outcome = "failed")
             => /\ LOGGER' = LOGGER
                /\ status'[last'.thread] = "running"
                /\ last'.writes = 1
                /\ last'.backend = LOGGER[last'.thread].backend )
      /\ ( ( /\ last.outcome = "failed"
             /\ last' # last
             /\ last'.thread = last.thread
             /\ EventEnabled(last') )
             => /\ Handed(last'.outcome)
                /\ last'.backend = LOGGER[last.thread].backend )
    ]_vars

\* C5: every emission and every init returns normally to its call site: no
\* step panics, no borrow of LOGGER is attempted while it is mutably borrowed.
C5_NoEmissionPanics ==
  /\ \A t \in Threads : status[t] = "running"
  /\ last.outcome # "panic"

\* C6: once Logger::init has run, a Debug or Trace event of the compatibility
\* front-end is never written, and an Error, Warn or Info event of that path
\* is written exactly when compat_enabled holds, which is the decision of
\* Logger::enabled for the same rank and target.
C6_CompatPathCappedAtInfo ==
  (compat.installed /\ last.path = "compat") =>
    LET dirs == LOGGER[last.thread].directives
        lvl  == CompatOfRank(last.level)
    IN /\ last.level \in {Debug, Trace} => ~Handed(last.outcome)
       /\ last.level \in {Error, Warn, Info} =>
            /\ Handed(last.outcome) <=> compat_enabled(dirs, lvl, last.target)
            /\ compat_enabled(dirs, lvl, last.target)
                 = enabled(dirs, last.level, last.target)

\* C7: the tag of every line rendered after Logger::init(tag, ..) is the tag
\* of the latest init of the thread.
C7_LineCarriesLatestInitTag ==
  (Handed(last.outcome) /\ lastInit[last.thread].done) =>
    last.tag = lastInit[last.thread].tag

\* C10: after Logger::init with a spec of three segments the directive list
\* is empty and every event of the thread, of either path, is disabled:
\* nothing is handed to the backend.
C10_ThreeSegmentsDisableAll ==
  \A t \in Threads :
    (lastInit[t].done /\ NumSegments(lastInit[t].spec) >= 3) =>
      /\ LOGGER[t].directives = <<>>
      /\ \A level \in LogLevels, target \in Targets :
           /\ ~enabled(LOGGER[t].directives, level, target)
           /\ ~compat_enabled(LOGGER[t].directives, CompatOfRank(level), target)
      /\ last.thread = t =>
           /\ last.outcome \in {"disabled", "filtered"}
           /\ last.writes = 0

C10_Witness ==
  /\ lastInit["t1"].done /\ lastInit["t1"].spec = ThreeSegmentSpec
  /\ last.thread = "t1" /\ last.path = "macro" /\ last.level = Error
  /\ last.outcome = "disabled"

====
